---- MODULE Spec2Model ----
(***************************************************************************)
(* LEMI-423 processing: Process_LEMI_423.py (process_site,                 *)
(* process_all_sites, __main__) on top of LEMI_423_Reader.py               *)
(* (Read_Lemi_Header.read, Read_Lemi_Data._from_binary).                   *)
(*                                                                         *)
(* Python values are modelled as follows.                                  *)
(*   None            the empty tuple << >>; a value x that may be None is  *)
(*                   carried as << x >> (Some(x)).                         *)
(*   dict            a function from key strings; {} is the empty function *)
(*                   and d[k] raises KeyError iff k is not in DOMAIN d.    *)
(*   DataFrame       the sequence of its rows, in row order; the index     *)
(*                   (UTC timestamp) is the field t, in milliseconds.      *)
(*   exception       the name of its class, "" when nothing was raised.    *)
(***************************************************************************)
EXTENDS Integers, Sequences, FiniteSets, TLC

VARIABLES
    \* ---- one call of process_site(directory, site_info, site_id) ----
    folderExists,   \* os.path.isdir(site_path)
    listing,        \* os.listdir(site_path): the files, in directory order
    site_info,      \* the metadata row of the site
    site_id,        \* the id the caller assigned
    pc,             \* position in process_site
    binary_files,   \* the sorted list of *.B423 files
    idx,            \* number of files the for loop has gone through
    all_data,       \* list of per-file DataFrames
    start_time, finish_time, sample_rate,
    header_info,    \* the loop variable that survives the loop
    ret,            \* the returned tuple (df, metadata), None before return
    exc,            \* the exception that left process_site, "" if none
    \* ---- one run of __main__ / process_all_sites ----
    csvFile,        \* what the path names: "missing", "invalid" or "table"
    csvRows,        \* the rows of the CSV, each a site on disk or a row with a NaN
    requested,      \* num_workers as typed: None or an integer
    cpuCount,       \* os.cpu_count(): None or a positive integer
    mpc,            \* position in __main__ / process_all_sites
    num_workers,    \* the pool size (max_workers)
    futures,        \* the submitted jobs, in submission order: their site ids
    jobState,       \* site id -> "queued" | "running" | "done"
    jobResult,      \* site id -> outcome of the job, once done
    arrival,        \* site ids in the order their jobs completed
    collected,      \* number of futures the result loop has gone through
    merged_data,    \* process_all_sites' all_data
    metadata_list,  \* process_all_sites' metadata_list
    batchRet,       \* what process_all_sites returned, None before
    log             \* the lines the main process wrote to log.txt once __main__ runs
                    \* (the workers' lines, about single sites and files, are left out)

siteVars == <<folderExists, listing, site_info, site_id, pc, binary_files,
              idx, all_data, start_time, finish_time, sample_rate, header_info,
              ret, exc>>
batchVars == <<csvFile, csvRows, requested, cpuCount, mpc, num_workers, futures,
               jobState, jobResult, arrival, collected, merged_data, metadata_list,
               batchRet, log>>
vars == <<siteVars, batchVars>>

-----------------------------------------------------------------------------
(* Python values *)

None == << >>
Some(x) == << x >>
Val(o) == o[1]
EmptyDict == << >>

Last(s) == s[Len(s)]

RECURSIVE Concat(_)
\* pd.concat(frames): the rows of the frames, in list order
Concat(frames) ==
    IF frames = << >> THEN << >> ELSE Head(frames) \o Concat(Tail(frames))

-----------------------------------------------------------------------------
(* Bounds of the model *)

\* longest directory listing
MaxFiles == 3
\* largest os.cpu_count() and largest requested worker count
MaxCpu == 5
\* most rows in the metadata CSV
MaxSites == 3

-----------------------------------------------------------------------------
(* Files on disk *)

\* the ten keys _from_binary looks up
RequiredKeys == {"Kmx", "Ax", "Kmy", "Ay", "Kmz", "Az", "Ke1", "Ae1", "Ke2", "Ae2"}

\* a coefficient table with every required key
FullCoefficients ==
    [k \in RequiredKeys |-> IF k \in {"Kmx", "Kmy", "Kmz", "Ke1", "Ke2"} THEN 2 ELSE 1]

\* one 30-byte record, fields as in binary_format
Rec(time, tick, b) ==
    [time |-> time, tick |-> tick, Bx |-> b, By |-> b + 1, Bz |-> b + 2,
     Ex |-> b + 3, Ey |-> b + 4, sync |-> 0, stage |-> 1, CRC |-> 0]

\* The content of a file (every readable stream of the model holds at least one
\* record, and its records are in time order):
\*   opens       open(binary_file, 'rb') succeeds
\*   fields      "ok" when every header line parses, "malformed" when one raises
\*   instrument_number, latitude, longitude, elevation, coefficients
\*               what the header lines hold (latitude and longitude in 1e-7 degree)
\*   stream      the records after the header, None when they cannot be read
Body(opens, fields, instr, lat, lon, elev, coefs, stream) ==
    [opens |-> opens, fields |-> fields, instrument_number |-> instr,
     latitude |-> lat, longitude |-> lon, elevation |-> elev,
     coefficients |-> coefs, stream |-> stream]

HdrUnreadable == Body(FALSE, "ok", None, 0, 0, 0, FullCoefficients, None)
HdrMalformed ==
    Body(TRUE, "malformed", Some(5), 0, 0, 0, FullCoefficients,
         Some(<<Rec(50, 0, 1)>>))
DecodeFail ==
    Body(TRUE, "ok", Some(7), -349000015, 1386000004, 70, FullCoefficients, None)
\* a header without the coefficient k
Miscalibrated(k) ==
    Body(TRUE, "ok", Some(9), -348000005, 1387000016, 90,
         [c \in RequiredKeys \ {k} |-> FullCoefficients[c]],
         Some(<<Rec(300, 0, 40), Rec(300, 100, 41)>>))
\* two samples in the first second, then one more
GoodA ==
    Body(TRUE, "ok", Some(123), -347000025, 1388000035, 110, FullCoefficients,
         Some(<<Rec(100, 0, 10), Rec(100, 500, 11), Rec(101, 200, 12)>>))
\* no '#' in the first header line; three samples in the first second, a fourth
\* exactly one second after the first
GoodB ==
    Body(TRUE, "ok", None, 421000006, -712000014, 130, FullCoefficients,
         Some(<<Rec(200, 0, 20), Rec(200, 250, 21), Rec(200, 900, 22),
                Rec(201, 0, 23)>>))

Bodies(k) == {HdrUnreadable, HdrMalformed, DecodeFail, Miscalibrated(k), GoodA, GoodB}

\* File names: stem is the text before the first dot, as characters; ext the text
\* after it.
Name(stem, ext) == [stem |-> stem, ext |-> ext]
DataNames == {Name(<<"9">>, "B423"), Name(<<"1", "0">>, "B423"),
              Name(<<"1", "1">>, "B423")}
\* a file that is not instrument data, and a .B423 file whose stem is no integer
OtherFiles == {[name |-> Name(<<"1", "0">>, "txt"), body |-> HdrUnreadable],
               [name |-> Name(<<"x">>, "B423"), body |-> GoodA]}

FilePool(k) == {[name |-> n, body |-> b] : n \in DataNames, b \in Bodies(k)}
                  \cup OtherFiles

\* the directory listings with at most n entries, no name twice
RECURSIVE Listings(_, _)
Listings(pool, n) ==
    IF n = 0 THEN {<< >>}
    ELSE LET shorter == Listings(pool, n - 1)
         IN  shorter \cup
             UNION {{Append(l, f) : f \in {g \in pool :
                                      \A i \in 1..Len(l) : l[i].name # g.name}} :
                    l \in {s \in shorter : Len(s) = n - 1}}

-----------------------------------------------------------------------------
(* LEMI_423_Reader.py *)

\* Read_Lemi_Header._read_header: the header lines, [] when open or read fails
ReadHeader(body) == IF body.opens THEN Some(body.fields) ELSE << >>

\* Read_Lemi_Header.read: the metadata dict, {} when the header cannot be read or a
\* field does not parse; it raises nothing
HeaderRead(body) ==
    LET header == ReadHeader(body)
    IN  IF header = << >> THEN EmptyDict
        ELSE IF Val(header) # "ok" THEN EmptyDict
        ELSE [instrument_number |-> body.instrument_number,
              latitude |-> body.latitude,
              longitude |-> body.longitude,
              elevation |-> body.elevation,
              coefficients |-> body.coefficients]

\* one row of the DataFrame _from_binary returns: index t, calibrated channels, and
\* the raw columns it leaves in place
Calibrate(r, c) ==
    [t |-> r.time * 1000 + r.tick,
     Bx |-> r.Bx * c["Kmx"] + c["Ax"],
     By |-> r.By * c["Kmy"] + c["Ay"],
     Bz |-> r.Bz * c["Kmz"] + c["Az"],
     Ex |-> r.Ex * c["Ke1"] + c["Ae1"],
     Ey |-> r.Ey * c["Ke2"] + c["Ae2"],
     tick |-> r.tick, sync |-> r.sync, stage |-> r.stage, CRC |-> r.CRC]

\* _from_binary with a missing coefficient read as 0 instead of raising
FromBinary_defaults(body, coefficients) ==
    IF ~body.opens \/ body.stream = None THEN None
    ELSE LET data == Val(body.stream)
             c == [k \in RequiredKeys |->
                      IF k \in DOMAIN coefficients THEN coefficients[k] ELSE 0]
         IN  Some([i \in 1..Len(data) |-> Calibrate(data[i], c)])

\* Read_Lemi_Data._from_binary: the DataFrame, None when the stream cannot be read
\* or a coefficient is missing (every exception is caught and logged)
FromBinary(body, coefficients) ==
    IF ~body.opens \/ body.stream = None THEN None
    ELSE IF ~(RequiredKeys \subseteq DOMAIN coefficients) THEN None
    ELSE LET data == Val(body.stream)
         IN  Some([i \in 1..Len(data) |-> Calibrate(data[i], coefficients)])

-----------------------------------------------------------------------------
(* Process_LEMI_423.py: process_site *)

\* f.endswith(".B423")
EndsWithB423(f) == f.name.ext = "B423"

Digits == {"0", "1", "2", "3", "4", "5", "6", "7", "8", "9"}
DigitValue(c) ==
    CASE c = "0" -> 0 [] c = "1" -> 1 [] c = "2" -> 2 [] c = "3" -> 3 [] c = "4" -> 4
      [] c = "5" -> 5 [] c = "6" -> 6 [] c = "7" -> 7 [] c = "8" -> 8 [] c = "9" -> 9

RECURSIVE DecimalValue(_)
DecimalValue(chars) ==
    IF chars = << >> THEN 0
    ELSE 10 * DecimalValue(SubSeq(chars, 1, Len(chars) - 1)) + DigitValue(Last(chars))

\* int(os.path.basename(x).split('.')[0]): the value, None for a ValueError
PyInt(chars) ==
    IF chars # << >> /\ \A i \in 1..Len(chars) : chars[i] \in Digits
    THEN Some(DecimalValue(chars))
    ELSE None

\* the sort key of line 115
SortKey(f) == Val(PyInt(f.name.stem))

RECURSIVE LexLE(_, _)
\* a <= b as Python compares strings
LexLE(a, b) ==
    IF a = << >> THEN TRUE
    ELSE IF b = << >> THEN FALSE
    ELSE IF Head(a) # Head(b) THEN DigitValue(Head(a)) < DigitValue(Head(b))
    ELSE LexLE(Tail(a), Tail(b))

\* the files ordered by name, as sorted() without key= orders them
KeyLE_lexicographic(a, b) == LexLE(a.name.stem, b.name.stem)

\* the order sorted() puts two files in: by the integer key
KeyLE(a, b) == SortKey(a) <= SortKey(b)

\* x goes after the entries whose key is not larger (sorted() is stable)
RECURSIVE InsertByKey(_, _)
InsertByKey(sorted, x) ==
    IF sorted = << >> THEN <<x>>
    ELSE IF KeyLE(Last(sorted), x) THEN Append(sorted, x)
    ELSE Append(InsertByKey(SubSeq(sorted, 1, Len(sorted) - 1), x), Last(sorted))

RECURSIVE SortedFiles(_)
\* sorted(files, key = integer prefix)
SortedFiles(files) ==
    IF files = << >> THEN << >>
    ELSE InsertByKey(SortedFiles(SubSeq(files, 1, Len(files) - 1)), Last(files))

\* lines 108-120: what process_site does before the loop.
\*   kind "return": return None, None;  kind "raise": the sort raised;
\*   kind "loop": the for loop starts over files
SiteEntry(isdir, entries) ==
    LET selected == SelectSeq(entries, EndsWithB423)
    IN  IF ~isdir THEN [kind |-> "return", exc |-> "", files |-> << >>]
        ELSE IF \E i \in 1..Len(selected) : PyInt(selected[i].name.stem) = None
        THEN [kind |-> "raise", exc |-> "ValueError", files |-> << >>]
        ELSE IF selected = << >> THEN [kind |-> "return", exc |-> "", files |-> << >>]
        ELSE [kind |-> "loop", exc |-> "", files |-> SortedFiles(selected)]

\* the locals of process_site at line 125; header_info is not bound yet
InitialLocals ==
    [all_data |-> << >>, start_time |-> None, finish_time |-> None,
     sample_rate |-> None, header_info |-> None]

RECURSIVE IndexMin(_)
\* df.index.min()
IndexMin(df) ==
    IF Len(df) = 1 THEN df[1].t
    ELSE LET m == IndexMin(Tail(df)) IN IF df[1].t < m THEN df[1].t ELSE m

RECURSIVE IndexMax(_)
\* df.index.max()
IndexMax(df) ==
    IF Len(df) = 1 THEN df[1].t
    ELSE LET m == IndexMax(Tail(df)) IN IF df[1].t > m THEN df[1].t ELSE m

\* start_time assigned from every file
StartTimeAfter_overwrite(old, df) == Some(IndexMin(df))

\* start_time = start_time or df.index.min(); a Timestamp is always true
StartTimeAfter(old, df) == IF old = None THEN Some(IndexMin(df)) ELSE old

\* len(df[df.index < df.index.min() + pd.Timedelta(seconds=1)])
SamplesInFirstSecond(df) ==
    Cardinality({i \in 1..Len(df) : df[i].t < IndexMin(df) + 1000})

\* lines 144-145
SampleRateAfter(old, df) == IF old = None THEN Some(SamplesInFirstSecond(df)) ELSE old

\* lines 148-151: drop time, Bz, tick, sync, stage, CRC; add site_id
Tagged(df, sid) ==
    [i \in 1..Len(df) |->
        [t |-> df[i].t, Bx |-> df[i].Bx, By |-> df[i].By, Ex |-> df[i].Ex,
         Ey |-> df[i].Ey, site_id |-> sid]]

\* lines 130-156: one iteration of the for loop, try and except together.
\* header_info is bound as soon as read() returns; header_info["coefficients"] raises
\* KeyError on {}, and df.index raises AttributeError on None: both are caught and the
\* loop goes on with the other locals as they were.
LoopBody(loc, f, sid) ==
    LET hdr == HeaderRead(f.body)
        bound == [loc EXCEPT !.header_info = hdr]
    IN  IF "coefficients" \notin DOMAIN hdr THEN bound
        ELSE LET df == FromBinary(f.body, hdr["coefficients"])
             IN  IF df = None THEN bound
                 ELSE [all_data |-> Append(loc.all_data, Tagged(Val(df), sid)),
                       start_time |-> StartTimeAfter(loc.start_time, Val(df)),
                       finish_time |-> Some(IndexMax(Val(df))),
                       sample_rate |-> SampleRateAfter(loc.sample_rate, Val(df)),
                       header_info |-> hdr]

\* f"{x:.6f}" of a coordinate held in 1e-7 degree: the number of 1e-6 degrees printed
Fmt6(x) ==
    LET q == x \div 10
        r == x % 10
    IN  IF r > 5 \/ (r = 5 /\ q % 2 = 1) THEN q + 1 ELSE q

\* the keys lines 162-165 look up in header_info
SummaryKeys == {"instrument_number", "latitude", "longitude", "elevation"}

\* which header the summary is built from: the loop variable as the loop left it
SummaryHeader(loc) == loc.header_info

\* lines 159-173
Metadata(loc, info, sid) ==
    LET h == SummaryHeader(loc)
    IN  [site_id |-> sid, site_name |-> info.SiteName,
         Rx_no |-> h["instrument_number"],
         Lat |-> Fmt6(h["latitude"]), Lon |-> Fmt6(h["longitude"]),
         Alt |-> h["elevation"],
         Start_Time |-> loc.start_time, Finish_Time |-> loc.finish_time,
         Sample_Rate |-> loc.sample_rate,
         ExDipole |-> info.ExDipole, ExAz |-> info.ExAzimuth,
         EyDipole |-> info.EyDipole, EyAz |-> info.EyAzimuth]

NoResult == [exc |-> "", df |-> None, metadata |-> None]

\* lines 158-176: what leaves process_site after the loop
SiteExit(loc, info, sid) ==
    IF ~(SummaryKeys \subseteq DOMAIN SummaryHeader(loc))
    THEN [exc |-> "KeyError", df |-> None, metadata |-> None]
    ELSE [exc |-> "",
          df |-> IF loc.all_data # << >> THEN Some(Concat(loc.all_data)) ELSE None,
          metadata |-> Some(Metadata(loc, info, sid))]

RECURSIVE RunLoop(_, _, _)
\* the for loop of lines 127-156 over files
RunLoop(loc, files, sid) ==
    IF files = << >> THEN loc
    ELSE RunLoop(LoopBody(loc, Head(files), sid), Tail(files), sid)

\* a whole call of process_site, as the worker process runs it
ProcessSite(isdir, entries, info, sid) ==
    LET e == SiteEntry(isdir, entries)
    IN  IF e.kind = "return" THEN NoResult
        ELSE IF e.kind = "raise" THEN [exc |-> e.exc, df |-> None, metadata |-> None]
        ELSE SiteExit(RunLoop(InitialLocals, e.files, sid), info, sid)

-----------------------------------------------------------------------------
(* The metadata CSV and the site folders next to it *)

\* a CSV row; a cell that is empty (NaN) is None
Row(name, exd, exa, eyd, eya) ==
    [SiteName |-> name, ExDipole |-> exd, ExAzimuth |-> exa, EyDipole |-> eyd,
     EyAzimuth |-> eya]

SiteRows ==
    {Row(Some("A"), Some(50), Some(0), Some(52), Some(90)),
     Row(Some("B"), Some(48), Some(10), Some(49), Some(100)),
     Row(Some("M"), Some(47), Some(5), Some(47), Some(95)),
     Row(Some("F"), Some(51), Some(0), Some(51), Some(90)),
     Row(Some("E"), Some(46), Some(2), Some(45), Some(92)),
     Row(Some("Z"), Some(44), Some(3), Some(43), Some(93))}

\* a row with an empty cell
NaNRow == Row(Some("A"), None, Some(0), Some(52), Some(90))

File(stem, ext, body) == [name |-> Name(stem, ext), body |-> body]

\* the folders under the CSV's directory: A and B hold data, M does not exist, F ends
\* with a file whose header does not parse, E holds one file whose records cannot be
\* read, Z holds no .B423 file
Disk(name) ==
    CASE name = "A" ->
           [isdir |-> TRUE,
            entries |-> <<File(<<"1", "0">>, "B423", GoodB),
                          File(<<"1", "1">>, "B423", Miscalibrated("Kmz")),
                          File(<<"9">>, "B423", GoodA)>>]
      [] name = "B" ->
           [isdir |-> TRUE, entries |-> <<File(<<"9">>, "B423", GoodB)>>]
      [] name = "M" -> [isdir |-> FALSE, entries |-> << >>]
      [] name = "F" ->
           [isdir |-> TRUE,
            entries |-> <<File(<<"9">>, "B423", GoodA),
                          File(<<"1", "0">>, "B423", HdrMalformed)>>]
      [] name = "E" ->
           [isdir |-> TRUE, entries |-> <<File(<<"9">>, "B423", DecodeFail)>>]
      [] name = "Z" ->
           [isdir |-> TRUE, entries |-> <<File(<<"1", "0">>, "txt", HdrUnreadable)>>]

\* the tables with at most n rows
RECURSIVE Tables(_, _)
Tables(rows, n) ==
    IF n = 0 THEN {<< >>}
    ELSE LET shorter == Tables(rows, n - 1)
         IN  shorter \cup
             {Append(t, r) : t \in {s \in shorter : Len(s) = n - 1}, r \in rows}

-----------------------------------------------------------------------------
(* Process_LEMI_423.py: load_metadata, process_all_sites, log_summary, __main__ *)

\* df[required_columns].dropna(): the complete rows keep their index labels
HasNaN(row) ==
    \/ row.SiteName = None \/ row.ExDipole = None \/ row.ExAzimuth = None
    \/ row.EyDipole = None \/ row.EyAzimuth = None

\* the index labels metadata_df.iterrows() yields, ascending (labels count from 0)
RowLabels(rows) == {i \in 0..(Len(rows) - 1) : ~HasNaN(rows[i + 1])}

RECURSIVE Ascending(_)
\* the members of a set of integers, ascending
Ascending(S) ==
    IF S = {} THEN << >>
    ELSE LET m == CHOOSE x \in S : \A y \in S : x <= y
         IN  <<m>> \o Ascending(S \ {m})

\* the site_info of label i, cells unwrapped
SiteInfo(rows, i) ==
    LET r == rows[i + 1]
    IN  [SiteName |-> Val(r.SiteName), ExDipole |-> Val(r.ExDipole),
         ExAzimuth |-> Val(r.ExAzimuth), EyDipole |-> Val(r.EyDipole),
         EyAzimuth |-> Val(r.EyAzimuth)]

\* the default of line 202
DefaultWorkers == 4

Min2(a, b) == IF a < b THEN a ELSE b
Max2(a, b) == IF a > b THEN a ELSE b

\* os.cpu_count() or 1
CpuOrOne(cpu) == IF cpu = None THEN 1 ELSE Val(cpu)

\* lines 201-204 without the max(1, ...)
PoolSize_noFloor(req, cpu) ==
    IF req = None THEN Min2(DefaultWorkers, CpuOrOne(cpu))
    ELSE Min2(Val(req), CpuOrOne(cpu))

\* lines 201-204
PoolSize(req, cpu) ==
    IF req = None THEN Min2(DefaultWorkers, CpuOrOne(cpu))
    ELSE Max2(1, Min2(Val(req), CpuOrOne(cpu)))

\* the job process_all_sites submits for label i (line 209)
SiteJob(rows, i) ==
    LET info == SiteInfo(rows, i)
    IN  ProcessSite(Disk(info.SiteName).isdir, Disk(info.SiteName).entries, info, i)

\* the futures as as_completed() would yield them
FutureOrder_arrival == arrival

\* the order in which the result loop of line 210 takes the futures: the dict's
\* insertion order, which is the submission order
FutureOrder == futures

\* lines 212-217 with metadata_list.append(metadata) outside the if
CollectOne_appendAlways(data, metas, res) ==
    IF res.exc # "" THEN [data |-> data, metas |-> metas]
    ELSE [data |-> IF res.df # None THEN Append(data, Val(res.df)) ELSE data,
          metas |-> Append(metas, IF res.metadata # None THEN Val(res.metadata)
                                  ELSE [site_id |-> -1])]

\* lines 212-217 for one future: the lists after its result is taken; an exception
\* raised by the job is caught and logged
CollectOne(data, metas, res) ==
    IF res.exc # "" THEN [data |-> data, metas |-> metas]
    ELSE IF res.df # None
         THEN [data |-> Append(data, Val(res.df)),
               metas |-> Append(metas, Val(res.metadata))]
         ELSE [data |-> data, metas |-> metas]

\* line 219
BatchResult(data, metas) ==
    [df |-> IF data # << >> THEN Some(Concat(data)) ELSE None,
     metadata |-> Some(metas)]

Line(by, level, msg) == [by |-> by, level |-> level, msg |-> msg]

\* lines 265-267 with log_summary (lines 232-250): the lines written once
\* process_all_sites has returned
ReportLines(res) ==
    IF res.df # None /\ res.metadata # None
    THEN <<Line("main", "INFO", "All sites processed successfully!")>> \o
         (IF Val(res.df) = << >>
          THEN <<Line("log_summary", "WARNING", "No data loaded.")>>
          ELSE <<Line("log_summary", "INFO", "Site Metadata"),
                 Line("log_summary", "INFO", "First 5 rows of data per site for QA")>>)
    ELSE << >>

-----------------------------------------------------------------------------
(* One call of process_site, file by file *)

Locals ==
    [all_data |-> all_data, start_time |-> start_time, finish_time |-> finish_time,
     sample_rate |-> sample_rate, header_info |-> header_info]

SetLocals(loc) ==
    /\ all_data' = loc.all_data
    /\ start_time' = loc.start_time
    /\ finish_time' = loc.finish_time
    /\ sample_rate' = loc.sample_rate
    /\ header_info' = loc.header_info

BatchIdle ==
    /\ csvFile = "table" /\ csvRows = << >> /\ requested = None /\ cpuCount = None
    /\ mpc = "idle" /\ num_workers = 0 /\ futures = << >> /\ jobState = << >>
    /\ jobResult = << >> /\ arrival = << >> /\ collected = 0
    /\ merged_data = << >> /\ metadata_list = << >> /\ batchRet = None /\ log = << >>

SiteIdle ==
    /\ folderExists = FALSE /\ listing = << >> /\ site_info = << >> /\ site_id = 0
    /\ pc = "idle" /\ binary_files = << >> /\ idx = 0
    /\ all_data = << >> /\ start_time = None /\ finish_time = None
    /\ sample_rate = None /\ header_info = None /\ ret = None /\ exc = ""

\* the site rows process_site is called with here, by label
CallRows == <<Row(Some("A"), Some(50), Some(0), Some(52), Some(90)),
              Row(Some("B"), Some(48), Some(10), Some(49), Some(100))>>

InitSite ==
    /\ BatchIdle
    /\ folderExists \in BOOLEAN
    /\ \E k \in RequiredKeys :
          listing \in IF folderExists THEN Listings(FilePool(k), MaxFiles) ELSE {<< >>}
    /\ site_id \in RowLabels(CallRows)
    /\ site_info = SiteInfo(CallRows, site_id)
    /\ pc = "start" /\ binary_files = << >> /\ idx = 0
    /\ all_data = InitialLocals.all_data
    /\ start_time = InitialLocals.start_time
    /\ finish_time = InitialLocals.finish_time
    /\ sample_rate = InitialLocals.sample_rate
    /\ header_info = InitialLocals.header_info
    /\ ret = None /\ exc = ""

\* lines 102-125
Enter ==
    /\ pc = "start"
    /\ LET e == SiteEntry(folderExists, listing)
       IN  /\ binary_files' = e.files
           /\ pc' = CASE e.kind = "return" -> "returned"
                      [] e.kind = "raise" -> "raised"
                      [] e.kind = "loop" -> "loop"
           /\ ret' = IF e.kind = "return" THEN Some(NoResult) ELSE None
           /\ exc' = e.exc
    /\ UNCHANGED <<folderExists, listing, site_info, site_id, idx, all_data,
                   start_time, finish_time, sample_rate, header_info, batchVars>>

\* lines 127-156, one file
LoopStep ==
    /\ pc = "loop" /\ idx < Len(binary_files)
    /\ SetLocals(LoopBody(Locals, binary_files[idx + 1], site_id))
    /\ idx' = idx + 1
    /\ UNCHANGED <<folderExists, listing, site_info, site_id, pc, binary_files, ret,
                   exc, batchVars>>

\* lines 158-176
Exit ==
    /\ pc = "loop" /\ idx = Len(binary_files)
    /\ LET r == SiteExit(Locals, site_info, site_id)
       IN  /\ exc' = r.exc
           /\ ret' = IF r.exc = "" THEN Some(r) ELSE None
           /\ pc' = IF r.exc = "" THEN "returned" ELSE "raised"
    /\ UNCHANGED <<folderExists, listing, site_info, site_id, binary_files, idx,
                   all_data, start_time, finish_time, sample_rate, header_info,
                   batchVars>>

NextSite == Enter \/ LoopStep \/ Exit

SpecSite == InitSite /\ [][NextSite]_vars

-----------------------------------------------------------------------------
(* One run of __main__ *)

InitRun ==
    /\ SiteIdle
    /\ mpc = "start" /\ num_workers = 0 /\ futures = << >> /\ jobState = << >>
    /\ jobResult = << >> /\ arrival = << >> /\ collected = 0
    /\ merged_data = << >> /\ metadata_list = << >> /\ batchRet = None /\ log = << >>

\* what the user types for the worker count and what os.cpu_count() answers
WorkerCounts == {None} \cup {Some(n) : n \in -1..(MaxCpu + 1)}
CpuCounts == {None} \cup {Some(n) : n \in 1..MaxCpu}

\* every table, a few worker counts
InitBatch ==
    /\ InitRun
    /\ csvFile \in {"missing", "invalid", "table"}
    /\ csvRows \in IF csvFile = "table"
                   THEN Tables(SiteRows \cup {NaNRow}, MaxSites) ELSE {<< >>}
    /\ \E p \in {<<None, None>>, <<Some(2), Some(MaxCpu)>>} :
          requested = p[1] /\ cpuCount = p[2]

\* every worker count, one table
InitPool ==
    /\ InitRun
    /\ csvFile \in {"missing", "invalid", "table"}
    /\ csvRows = IF csvFile = "table"
                 THEN <<Row(Some("B"), Some(48), Some(10), Some(49), Some(100)),
                        Row(Some("M"), Some(47), Some(5), Some(47), Some(95))>>
                 ELSE << >>
    /\ requested \in WorkerCounts
    /\ cpuCount \in CpuCounts

\* lines 253-263 and 268-269
MainStart ==
    /\ mpc = "start"
    /\ LET head == <<Line("main", "INFO", "CSV file"),
                     Line("main", "INFO", "Number CPUs")>>
       IN  IF csvFile = "missing"
           THEN /\ log' = head \o <<Line("main", "ERROR", "Invalid CSV file path.")>>
                /\ mpc' = "done"
           ELSE /\ log' = head
                /\ mpc' = "load"
    /\ UNCHANGED <<siteVars, csvFile, csvRows, requested, cpuCount, num_workers,
                   futures, jobState, jobResult, arrival, collected, merged_data,
                   metadata_list, batchRet>>

\* lines 191-195: load_metadata returned None
LoadFails ==
    /\ mpc = "load" /\ csvFile = "invalid"
    /\ batchRet' = Some([df |-> None, metadata |-> None])
    /\ mpc' = "returned"
    /\ UNCHANGED <<siteVars, csvFile, csvRows, requested, cpuCount, num_workers,
                   futures, jobState, jobResult, arrival, collected, merged_data,
                   metadata_list, log>>

\* lines 191-209: the table is loaded, the pool is sized and every site is submitted
Submit ==
    /\ mpc = "load" /\ csvFile = "table"
    /\ num_workers' = PoolSize(requested, cpuCount)
    /\ futures' = Ascending(RowLabels(csvRows))
    /\ jobState' = [i \in RowLabels(csvRows) |-> "queued"]
    /\ jobResult' = [i \in RowLabels(csvRows) |-> None]
    /\ mpc' = "collect"
    /\ UNCHANGED <<siteVars, csvFile, csvRows, requested, cpuCount, arrival,
                   collected, merged_data, metadata_list, batchRet, log>>

Running == {i \in DOMAIN jobState : jobState[i] = "running"}
Queued == {i \in DOMAIN jobState : jobState[i] = "queued"}

\* an idle worker takes the oldest queued job
StartJob(i) ==
    /\ mpc = "collect"
    /\ i \in Queued /\ \A j \in Queued : i <= j
    /\ Cardinality(Running) < num_workers
    /\ jobState' = [jobState EXCEPT ![i] = "running"]
    /\ UNCHANGED <<siteVars, csvFile, csvRows, requested, cpuCount, mpc, num_workers,
                   futures, jobResult, arrival, collected, merged_data,
                   metadata_list, batchRet, log>>

\* a worker finishes process_site for label i
FinishJob(i) ==
    /\ mpc = "collect"
    /\ i \in Running
    /\ jobState' = [jobState EXCEPT ![i] = "done"]
    /\ jobResult' = [jobResult EXCEPT ![i] = Some(SiteJob(csvRows, i))]
    /\ arrival' = Append(arrival, i)
    /\ UNCHANGED <<siteVars, csvFile, csvRows, requested, cpuCount, mpc, num_workers,
                   futures, collected, merged_data, metadata_list, batchRet, log>>

\* lines 210-217: future.result() of the next future, once its job is done
Collect ==
    /\ mpc = "collect"
    /\ collected < Len(FutureOrder)
    /\ LET i == FutureOrder[collected + 1]
       IN  /\ jobState[i] = "done"
           /\ LET res == Val(jobResult[i])
                  got == CollectOne(merged_data, metadata_list, res)
              IN  /\ merged_data' = got.data
                  /\ metadata_list' = got.metas
                  /\ log' = IF res.exc # ""
                            THEN Append(log, Line("process_all_sites", "ERROR",
                                                  "Error in multiprocessing"))
                            ELSE log
    /\ collected' = collected + 1
    /\ UNCHANGED <<siteVars, csvFile, csvRows, requested, cpuCount, mpc, num_workers,
                   futures, jobState, jobResult, arrival, batchRet>>

\* line 219
Return ==
    /\ mpc = "collect" /\ collected = Len(futures)
    /\ batchRet' = Some(BatchResult(merged_data, metadata_list))
    /\ mpc' = "returned"
    /\ UNCHANGED <<siteVars, csvFile, csvRows, requested, cpuCount, num_workers,
                   futures, jobState, jobResult, arrival, collected, merged_data,
                   metadata_list, log>>

\* lines 265-267
Report ==
    /\ mpc = "returned"
    /\ log' = log \o ReportLines(Val(batchRet))
    /\ mpc' = "done"
    /\ UNCHANGED <<siteVars, csvFile, csvRows, requested, cpuCount, num_workers,
                   futures, jobState, jobResult, arrival, collected, merged_data,
                   metadata_list, batchRet>>

NextRun ==
    \/ MainStart \/ LoadFails \/ Submit
    \/ \E i \in DOMAIN jobState : StartJob(i)
    \/ \E i \in DOMAIN jobState : FinishJob(i)
    \/ Collect \/ Return \/ Report

SpecBatch == InitBatch /\ [][NextRun]_vars

SpecPool == InitPool /\ [][NextRun]_vars

-----------------------------------------------------------------------------
(* Properties of process_site, checked under SpecSite *)

\* what the loop appends for file f when it is processed on its own
RowsAlone(f) == Concat(LoopBody(InitialLocals, f, site_id).all_data)

\* f is successfully processed: it yields a DataFrame
Succeeds(f) == LoopBody(InitialLocals, f, site_id).all_data # << >>

\* the header of f parses and lacks one of the ten required coefficient keys
LacksKey(f) ==
    /\ f.body.opens /\ f.body.fields = "ok"
    /\ ~(RequiredKeys \subseteq DOMAIN f.body.coefficients)

\* process_site has left the loop, by return or by exception
Left == pc \in {"returned", "raised"}

\* process_site returned from line 176
ReturnedFromLoop == pc = "returned" /\ binary_files # << >>

\* the folder exists and holds .B423 files, each with an integer prefix
HasDataFiles ==
    /\ folderExists
    /\ \E i \in 1..Len(listing) : EndsWithB423(listing[i])
    /\ \A i \in 1..Len(listing) :
          EndsWithB423(listing[i]) => PyInt(listing[i].name.stem) # None

BodiesOf(files) == [i \in 1..Len(files) |-> files[i].body]

RECURSIVE RowsOfFiles(_)
\* the rows of the files fs, file after file
RowsOfFiles(fs) ==
    IF fs = << >> THEN << >> ELSE RowsAlone(Head(fs)) \o RowsOfFiles(Tail(fs))

\* C1: for a site whose folder exists and whose .B423 files all carry an integer
\* prefix, whatever the outcome of each file in each position, no exception leaves
\* process_site.
C1_FileErrorsNeverEscape == HasDataFiles => pc # "raised"

NotLacking(f) == ~LacksKey(f)

\* C3: a file whose header lacks a required coefficient key is skipped in every
\* position: while the loop runs and when process_site returns, the accumulated
\* table holds exactly the rows of the other files gone through, and a site whose
\* other files are all good returns normally with that table.
C3_MiscalibratedFileSkipped ==
    /\ pc \in {"loop", "returned"} /\ binary_files # << >>
         => Concat(all_data) = RowsOfFiles(SelectSeq(SubSeq(binary_files, 1, idx), NotLacking))
    /\ ReturnedFromLoop
         => Val(ret).df = (IF RowsOfFiles(SelectSeq(binary_files, NotLacking)) = << >> THEN None
                           ELSE Some(RowsOfFiles(SelectSeq(binary_files, NotLacking))))
    /\ (Left /\ HasDataFiles
          /\ \A i \in 1..Len(binary_files) :
                LacksKey(binary_files[i]) \/ Succeeds(binary_files[i]))
         => pc = "returned"

\* the miscalibrated file is the last of three, after two good files
C3_Witness ==
    /\ ReturnedFromLoop /\ Len(binary_files) = 3
    /\ LacksKey(binary_files[3])
    /\ Succeeds(binary_files[1]) /\ Succeeds(binary_files[2])
    /\ binary_files[1].body # binary_files[2].body
    /\ Val(ret).df = Some(RowsAlone(binary_files[1]) \o RowsAlone(binary_files[2]))

\* C4: when every .B423 file of a site fails and process_site returns, it returns
\* what it returns in the no-data case: (None, None), no time-series and no summary.
C4_AllFilesFailMirrorsNoData ==
    (ReturnedFromLoop /\ \A i \in 1..Len(binary_files) : ~Succeeds(binary_files[i]))
      => ret = Some(NoResult)

\* the last successfully processed file of fs
LastSuccess(fs) ==
    fs[CHOOSE i \in 1..Len(fs) :
          Succeeds(fs[i]) /\ \A j \in (i + 1)..Len(fs) : ~Succeeds(fs[j])]

\* C5: for a site with at least one successfully processed file, the summary
\* process_site returns carries the instrument number, latitude, longitude and
\* elevation of the header of the last successfully processed file, not of a later
\* file that failed, and the dipole and azimuth values of the site descriptor.
C5_SummaryFromLastGoodHeader ==
    (ReturnedFromLoop /\ \E i \in 1..Len(binary_files) : Succeeds(binary_files[i]))
      => /\ Val(ret).metadata # None
         /\ LET m == Val(Val(ret).metadata)
                h == LastSuccess(binary_files).body
            IN  /\ m.Rx_no = h.instrument_number
                /\ m.Lat = Fmt6(h.latitude) /\ m.Lon = Fmt6(h.longitude)
                /\ m.Alt = h.elevation
                /\ m.ExDipole = site_info.ExDipole /\ m.ExAz = site_info.ExAzimuth
                /\ m.EyDipole = site_info.EyDipole /\ m.EyAz = site_info.EyAzimuth

\* the integer a stem of digits denotes, read from the left
RECURSIVE StemValue(_, _)
StemValue(acc, chars) ==
    IF chars = << >> THEN acc
    ELSE StemValue(10 * acc + DigitValue(Head(chars)), Tail(chars))

RECURSIVE AscendingByPrefix(_)
\* the files of a set, smallest integer prefix first
AscendingByPrefix(S) ==
    IF S = {} THEN << >>
    ELSE LET f == CHOOSE x \in S :
                     \A y \in S : StemValue(0, x.name.stem) <= StemValue(0, y.name.stem)
         IN  <<f>> \o AscendingByPrefix(S \ {f})

DataFilesListed == {listing[i] : i \in {j \in 1..Len(listing) : listing[j].name.ext = "B423"}}

\* C9: the loop goes through exactly the .B423 files of the listing, in ascending
\* order of the integer value of their prefix whatever the directory order (9 before
\* 10), and the returned table holds the files' blocks of rows in that order.
C9_FilesInNumericOrder ==
    /\ (pc = "loop" \/ (Left /\ binary_files # << >>))
         => /\ binary_files = AscendingByPrefix(DataFilesListed)
            /\ \A i, j \in 1..Len(binary_files) :
                  (binary_files[i].name.stem = <<"9">>
                     /\ binary_files[j].name.stem = <<"1", "0">>) => i < j
            /\ Concat(all_data) = RowsOfFiles(SubSeq(binary_files, 1, idx))
    /\ ReturnedFromLoop /\ Val(ret).df # None
         => Val(Val(ret).df) = RowsOfFiles(AscendingByPrefix(DataFilesListed))

\* the directory lists 10.B423 before 9.B423 and a .txt file between them
C9_Witness ==
    /\ ReturnedFromLoop
    /\ Len(listing) = 3
    /\ listing[1].name = Name(<<"1", "0">>, "B423") /\ listing[1].body = GoodA
    /\ listing[2].name.ext = "txt"
    /\ listing[3].name = Name(<<"9">>, "B423") /\ listing[3].body = GoodB
    /\ binary_files = <<listing[3], listing[1]>>
    /\ Val(ret).df = Some(RowsAlone(listing[3]) \o RowsAlone(listing[1]))

\* timestamp of a raw record, in milliseconds
Stamp(r) == r.time * 1000 + r.tick

\* the successfully processed files among fs, in order
Successes(fs) == SelectSeq(fs, Succeeds)

\* number of records of f less than one second after its first record
FirstSecondCount(f) ==
    LET data == Val(f.body.stream)
    IN  Cardinality({i \in 1..Len(data) : Stamp(data[i]) - Stamp(data[1]) < 1000})

\* C10: after any sequence of succeeding and failing files, start_time is the
\* first-sample timestamp of the first successfully processed file, finish_time the
\* last-sample timestamp of the last successfully processed file, sample_rate the
\* number of samples of the first successfully processed file within one second of
\* start_time; the summary carries these three values.
C10_TimesAndRate ==
    /\ pc \in {"loop", "returned"} /\ binary_files # << >>
         => LET ok == Successes(SubSeq(binary_files, 1, idx))
            IN  IF ok = << >>
                THEN start_time = None /\ finish_time = None /\ sample_rate = None
                ELSE /\ start_time = Some(Stamp(Head(Val(Head(ok).body.stream))))
                     /\ finish_time = Some(Stamp(Last(Val(Last(ok).body.stream))))
                     /\ sample_rate = Some(FirstSecondCount(Head(ok)))
    /\ ReturnedFromLoop
         => LET m == Val(Val(ret).metadata)
            IN  /\ m.Start_Time = start_time /\ m.Finish_Time = finish_time
                /\ m.Sample_Rate = sample_rate

\* a failing file, then file A (2 samples in its first second), then file B
C10_Witness ==
    /\ ReturnedFromLoop
    /\ BodiesOf(binary_files) = <<HdrMalformed, GoodA, GoodB>>
    /\ Val(Val(ret).metadata).Start_Time = Some(100000)
    /\ Val(Val(ret).metadata).Finish_Time = Some(201000)
    /\ Val(Val(ret).metadata).Sample_Rate = Some(2)

-----------------------------------------------------------------------------
(* Properties of process_all_sites and __main__ *)

\* process_all_sites has returned the two tables of line 219
BatchReturned == mpc \in {"returned", "done"} /\ csvFile = "table"

Labels == RowLabels(csvRows)

FolderMissing(i) == ~Disk(SiteInfo(csvRows, i).SiteName).isdir

\* the job of label i returns a time-series table
Productive(i) == SiteJob(csvRows, i).exc = "" /\ SiteJob(csvRows, i).df # None

SiteIdsOf(table) == {table[n].site_id : n \in 1..Len(table)}

\* the rows of a table that carry site id i, in table order
RECURSIVE RowsWithId(_, _)
RowsWithId(table, i) ==
    IF table = << >> THEN << >>
    ELSE (IF Head(table).site_id = i THEN <<Head(table)>> ELSE << >>)
            \o RowsWithId(Tail(table), i)

MergedRows == IF Val(batchRet).df = None THEN << >> ELSE Val(Val(batchRet).df)
MetadataRows == Val(Val(batchRet).metadata)

\* C2: a site whose folder is missing contributes no row to either table and leaves
\* its siblings' contributions as they are: when k of the N sites have no folder and
\* the other N-k yield data, the metadata table has exactly N-k summaries, one per
\* such site, and the merged table holds, for each of them, exactly its own rows.
C2_MissingFolderIsolated ==
    BatchReturned =>
      /\ \A i \in Labels :
            FolderMissing(i) =>
               i \notin SiteIdsOf(MetadataRows) /\ i \notin SiteIdsOf(MergedRows)
      /\ (\A i \in Labels : FolderMissing(i) \/ Productive(i)) =>
            LET present == {i \in Labels : ~FolderMissing(i)}
            IN  /\ Len(MetadataRows) = Cardinality(present)
                /\ SiteIdsOf(MetadataRows) = present
                /\ Len(MergedRows) = Len(Concat([n \in 1..Len(Ascending(present)) |->
                                         Val(SiteJob(csvRows, Ascending(present)[n]).df)]))
                /\ \A i \in present :
                      RowsWithId(MergedRows, i) = Val(SiteJob(csvRows, i).df)

\* three sites, the second without a folder: two summaries
C2_Witness ==
    /\ BatchReturned /\ mpc = "done"
    /\ Labels = {0, 1, 2}
    /\ FolderMissing(1) /\ Productive(0) /\ Productive(2)
    /\ Len(MetadataRows) = 2
    /\ SiteIdsOf(MergedRows) = {0, 2}

\* the labels whose jobs yield data, ascending
ProductiveOrder == Ascending({i \in Labels : Productive(i)})

\* C6: whatever the order in which the site jobs complete, the merged table and the
\* metadata table hold the sites' blocks in ascending site_id order: both are
\* determined by the input table alone.
C6_MergeIgnoresCompletionOrder ==
    BatchReturned =>
      /\ MergedRows = Concat([n \in 1..Len(ProductiveOrder) |->
                                Val(SiteJob(csvRows, ProductiveOrder[n]).df)])
      /\ MetadataRows = [n \in 1..Len(ProductiveOrder) |->
                           Val(SiteJob(csvRows, ProductiveOrder[n]).metadata)]
      /\ \A a, b \in 1..Len(MergedRows) :
            a < b => MergedRows[a].site_id <= MergedRows[b].site_id

\* the job of the later site completed first
C6_Witness ==
    /\ BatchReturned
    /\ Len(arrival) >= 2 /\ arrival[1] > arrival[2]
    /\ Productive(arrival[1]) /\ Productive(arrival[2])
    /\ Len(MetadataRows) >= 2
    /\ MetadataRows[1].site_id < MetadataRows[2].site_id

\* the pool has been created
PoolCreated == mpc = "collect" \/ BatchReturned

Available == IF cpuCount = None THEN 1 ELSE Val(cpuCount)

BatchLevelReport(l) == l.by \in {"main", "log_summary"} /\ l.level \in {"WARNING", "ERROR"}

\* C8: when the table has sites and none of them produces data, the run ends with the
\* empty result reported: process_all_sites returns no time-series table and the log
\* holds a line saying so.
C8_EmptyBatchReported ==
    (mpc = "done" /\ csvFile = "table" /\ Labels # {}
       /\ \A i \in Labels : ~Productive(i))
      => /\ Val(batchRet).df = None
         /\ \E n \in 1..Len(log) : BatchLevelReport(log[n])

====
